---- MODULE Spec2Model ----
(***************************************************************************)
(* Model of ecs-toy (src/src/main.rs): a World of per-kind RwLock-guarded  *)
(* component arrays, nine systems submitted to a thread pool every tick,   *)
(* and the main loop that draws the canvas, submits the systems and joins  *)
(* the pool.                                                               *)
(***************************************************************************)
EXTENDS Integers, Sequences, FiniteSets, TLC

\* ------------------------------------------------------------------ bounds

\* the entities World::new is asked for (args.entities)
MaxEntities == 2
\* most worker threads of the pool (args.workers)
MaxWorkers == 3
\* iterations of the main loop that are explored with one worker; each further
\* worker shortens the exploration by one iteration (Horizon)
MaxTicks == 3
\* width of isize/usize in the model (64 in the build; TLC integers are 32-bit)
WordBits == 12

\* ------------------------------------------------------- program constants

WIDTH == 212
MIN_X == -106
MAX_X == 105
HEIGHT == 50
MIN_Y == -25
MAX_Y == 24
MAX_HEALTH == 10

ISIZE_MAX == 2^(WordBits - 1) - 1
ISIZE_MIN == -(2^(WordBits - 1))
USIZE_MAX == 2^WordBits - 1

\* ---------------------------------------------------------------- Option<T>

None == <<>>
Some(v) == <<v>>
is_some(o) == o # <<>>
is_none(o) == o = <<>>
unwrap(o) == o[1]

\* ------------------------------------------------------------- arithmetic

Min2(a, b) == IF a < b THEN a ELSE b
Max2(a, b) == IF a > b THEN a ELSE b

\* Ord::clamp
clamp(v, lo, hi) == IF v < lo THEN lo ELSE IF v > hi THEN hi ELSE v

\* isize `+`: the mathematical sum leaves the type
add_overflows(a, b) == a + b > ISIZE_MAX \/ a + b < ISIZE_MIN

\* isize `+` of a build without overflow checks: two's complement wrap
wrapping_add(a, b) == ((a + b - ISIZE_MIN) % (2^WordBits)) + ISIZE_MIN

\* isize `%`: the remainder has the sign of the dividend
rem(a, b) == IF a >= 0 THEN a % b ELSE -((-a) % b)

\* usize::saturating_add_signed
saturating_add_signed(h, d) == clamp(h + d, 0, USIZE_MAX)

\* ------------------------------------------------------------ random draws

\* The draws World::new makes for one entity: the branch and coordinates of the
\* first positions.push, the value of the second positions.push, the branches of
\* velocities.push and accelerations.push, and the usize behind healths.push.
draw(ps, px, py, p2, vs, as, h) ==
    [pos_some |-> ps, pos_x |-> px, pos_y |-> py, pos2 |-> p2,
     vel_some |-> vs, acc_some |-> as, health |-> h]

\* The runs that are explored. Each fixes what the thread-local generators and
\* the terminal give in that run: `new`, the draws of World::new for entity 0,
\* 1, 2, ...; `usize`, `isize`, `bool`, the values random::<T>() returns inside
\* the systems; `events`, what event::poll / event::read give user_input_system.
Runs ==
    { [new    |-> << draw(TRUE, ISIZE_MAX, ISIZE_MAX, Some(<<ISIZE_MAX, ISIZE_MIN>>), TRUE, FALSE, 1),
                     draw(TRUE, 0, 0, Some(<<0, ISIZE_MIN>>), TRUE, FALSE, 99),
                     draw(FALSE, 0, 0, None, FALSE, TRUE, 7) >>,
       usize  |-> {0},
       isize  |-> {ISIZE_MAX},
       bool   |-> {FALSE},
       events |-> {"none", "q_pressed"}],
      [new    |-> << draw(FALSE, 0, 0, None, FALSE, TRUE, 100),
                     draw(TRUE, ISIZE_MIN, 0, Some(<<1, 1>>), TRUE, TRUE, 5),
                     draw(TRUE, 0, 0, None, TRUE, FALSE, 3) >>,
       usize  |-> {1, 99},
       isize  |-> {0},
       bool   |-> {TRUE},
       events |-> {"other_key", "io_error"}],
      [new    |-> << draw(TRUE, 0, ISIZE_MAX, Some(<<0, ISIZE_MAX>>), FALSE, FALSE, 8),
                     draw(FALSE, 0, 0, Some(<<ISIZE_MIN, 0>>), TRUE, TRUE, 2),
                     draw(TRUE, 1, 1, Some(<<1, 1>>), FALSE, FALSE, 100) >>,
       usize  |-> {99},
       isize  |-> {ISIZE_MAX},
       bool   |-> {TRUE, FALSE},
       events |-> {"none", "q_pressed"}] }

\* ------------------------------------------------------------------ World

Status == {"Dead", "Low", "Medium", "High"}

\* [[Status::Dead; WIDTH]; HEIGHT]: a canvas is kept as the function from its
\* cells <<y, x>> that are not Dead to their status; every other cell is Dead.
dead_canvas == [c \in {} |-> "Dead"]

canvas_at(cv, y, x) == IF <<y, x>> \in DOMAIN cv THEN cv[<<y, x>>] ELSE "Dead"

canvas_set(cv, y, x, st) ==
    [c \in (DOMAIN cv) \cup {<<y, x>>} |-> IF c = <<y, x>> THEN st ELSE cv[c]]

\* World::new: the vectors it pushes for entities 0..n-1, from the draws d
RECURSIVE new_positions(_, _)
new_positions(n, d) ==
    IF n = 0 THEN <<>>
    ELSE new_positions(n - 1, d)
         \o << IF d[n].pos_some
               THEN Some(<<clamp(d[n].pos_x, MIN_X, MAX_X), clamp(d[n].pos_y, MIN_Y, MAX_Y)>>)
               ELSE None >>
         \o << d[n].pos2 >>

new_velocities(n, d) == [i \in 1..n |-> IF d[i].vel_some THEN Some(<<0, 0>>) ELSE None]

new_accelerations(n, d) == [i \in 1..n |-> IF d[i].acc_some THEN Some(<<0, 0>>) ELSE None]

new_alives(n, d) == [i \in 1..n |-> Some(TRUE)]

new_healths(n, d) == [i \in 1..n |-> Some(d[i].health % 100)]

new_health_changes(n, d) == [i \in 1..n |-> None]

\* --------------------------------------------------------- system bodies

\* position_update_system, lines 53-58: the zipped loop from index i on.
\* checks: the build panics on isize overflow (otherwise it wraps).
RECURSIVE position_update_loop(_, _, _, _)
position_update_loop(ps, vs, i, checks) ==
    IF i > Min2(Len(ps), Len(vs)) THEN [arr |-> ps, overflow |-> FALSE, panic |-> FALSE]
    ELSE IF is_some(ps[i]) /\ is_some(vs[i])
    THEN LET p == unwrap(ps[i])
             v == unwrap(vs[i])
             ovf == add_overflows(p[1], v[1]) \/ add_overflows(p[2], v[2])
             np == Some(<<clamp(wrapping_add(p[1], v[1]), MIN_X, MAX_X),
                          clamp(wrapping_add(p[2], v[2]), MIN_Y, MAX_Y)>>)
         IN  IF ovf /\ checks
             THEN [arr |-> ps, overflow |-> TRUE, panic |-> TRUE]
             ELSE LET rest == position_update_loop([ps EXCEPT ![i] = np], vs, i + 1, checks)
                  IN  [rest EXCEPT !.overflow = @ \/ ovf]
    ELSE position_update_loop(ps, vs, i + 1, checks)

\* velocity_update_system giving an entity without velocity its acceleration
velocity_update_loop_fabricate(vs, as, i, checks) ==
    [arr |-> [k \in 1..Len(vs) |->
                 IF k >= i /\ k <= Len(as) /\ is_some(as[k])
                 THEN IF is_some(vs[k])
                      THEN Some(<<wrapping_add(unwrap(vs[k])[1], unwrap(as[k])[1]),
                                  wrapping_add(unwrap(vs[k])[2], unwrap(as[k])[2])>>)
                      ELSE as[k]
                 ELSE vs[k]],
     overflow |-> FALSE, panic |-> FALSE]

\* velocity_update_system, lines 67-72
RECURSIVE velocity_update_loop(_, _, _, _)
velocity_update_loop(vs, as, i, checks) ==
    IF i > Min2(Len(vs), Len(as)) THEN [arr |-> vs, overflow |-> FALSE, panic |-> FALSE]
    ELSE IF is_some(vs[i]) /\ is_some(as[i])
    THEN LET v == unwrap(vs[i])
             a == unwrap(as[i])
             ovf == add_overflows(v[1], a[1]) \/ add_overflows(v[2], a[2])
             nv == Some(<<wrapping_add(v[1], a[1]), wrapping_add(v[2], a[2])>>)
         IN  IF ovf /\ checks
             THEN [arr |-> vs, overflow |-> TRUE, panic |-> TRUE]
             ELSE LET rest == velocity_update_loop([vs EXCEPT ![i] = nv], as, i + 1, checks)
                  IN  [rest EXCEPT !.overflow = @ \/ ovf]
    ELSE velocity_update_loop(vs, as, i + 1, checks)

\* component_render_system, lines 87-92: the match on health
classify(cv, y, x, h) ==
    IF h >= 7 THEN canvas_set(cv, y, x, "High")
    ELSE IF h >= 4 THEN canvas_set(cv, y, x, "Medium")
    ELSE IF h >= 1 THEN canvas_set(cv, y, x, "Low")
    ELSE cv

\* component_render_system translating the position without clamping it
cell_of_unclamped(p) == << p[2] + HEIGHT \div 2, p[1] + WIDTH \div 2 >>

\* component_render_system, lines 84-85: the cell <<y, x>> of a position,
\* clamped, then translated
cell_of(p) ==
    << clamp(p[2], MIN_Y, MAX_Y) + HEIGHT \div 2, clamp(p[1], MIN_X, MAX_X) + WIDTH \div 2 >>

\* component_render_system, lines 83-93: the zipped loop from index i on
RECURSIVE render_loop(_, _, _, _, _)
render_loop(cv, ps, als, hs, i) ==
    IF i > Min2(Len(ps), Min2(Len(als), Len(hs))) THEN cv
    ELSE IF is_some(ps[i]) /\ is_some(als[i]) /\ unwrap(als[i]) /\ is_some(hs[i])
    THEN LET c == cell_of(unwrap(ps[i]))
         IN  render_loop(classify(cv, c[1], c[2], unwrap(hs[i])), ps, als, hs, i + 1)
    ELSE render_loop(cv, ps, als, hs, i + 1)

\* component_render_system, line 80 and lines 83-93
new_canvas(ps, als, hs) == render_loop(dead_canvas, ps, als, hs, 1)

\* health_update_system taking an absent change for 0
health_update_default(hs, hcs) ==
    [i \in 1..Len(hs) |->
        IF i <= Len(hcs) /\ is_some(hs[i])
        THEN Some(clamp(saturating_add_signed(unwrap(hs[i]),
                                              IF is_some(hcs[i]) THEN unwrap(hcs[i]) ELSE 0),
                        0, MAX_HEALTH))
        ELSE hs[i]]

\* health_update_system, lines 103-105
health_update(hs, hcs) ==
    [i \in 1..Len(hs) |->
        IF i <= Len(hcs) /\ is_some(hs[i]) /\ is_some(hcs[i])
        THEN Some(clamp(saturating_add_signed(unwrap(hs[i]), unwrap(hcs[i])), 0, MAX_HEALTH))
        ELSE hs[i]]

\* acceleration_update_system, lines 167-177: one axis from random::<usize>()
axis(r) == IF r % 4 = 0 THEN 1 ELSE IF r % 4 = 1 THEN -1 ELSE 0

\* acceleration_update_system drawing a new value for every element, present or not
acceleration_update_refresh(as, rs) ==
    [i \in 1..Len(as) |-> Some(<<axis(rs[i][1]), axis(rs[i][2])>>)]

\* acceleration_update_system, lines 163-182; rs[i]: the two draws for element i
acceleration_update(as, rs) ==
    [i \in 1..Len(as) |->
        IF is_some(as[i]) THEN None ELSE Some(<<axis(rs[i][1]), axis(rs[i][2])>>)]

\* alive_system writing the outcome of its test where line 193 writes false
alive_update_inverted(als, hs) ==
    [i \in 1..Len(als) |->
        IF i <= Len(hs) /\ is_some(als[i])
        THEN Some(is_none(hs[i]) \/ unwrap(hs[i]) = 0)
        ELSE als[i]]

\* alive_system, lines 191-195
alive_update(als, hs) ==
    [i \in 1..Len(als) |->
        IF i <= Len(hs) /\ is_some(als[i]) /\ (is_none(hs[i]) \/ unwrap(hs[i]) = 0)
        THEN Some(FALSE)
        ELSE als[i]]

\* health_changes_system, lines 203-214; rs[i]: the bool and the isize drawn
health_changes_update(hcs, rs) ==
    [i \in 1..Len(hcs) |->
        IF is_some(hcs[i]) THEN None
        ELSE IF rs[i][1] THEN Some(rem(rs[i][2], 2)) ELSE Some(-rem(rs[i][2], 2))]

\* alive_entities_display_system, line 222
total_alive(als) == Cardinality({i \in 1..Len(als) : is_some(als[i]) /\ unwrap(als[i])})

\* ------------------------------------------------------------------ state

VARIABLES
    entities,          \* args.entities
    workers,           \* args.workers
    policy,            \* admission policy of std::sync::RwLock on the platform
    env,               \* what the generators and the terminal give in this run
    overflow_checks,   \* whether the build panics on isize overflow, once observed
    positions, velocities, accelerations, alives, healths, health_changes,
    canvas, living_entities, running,    \* the fields of World
    locks,             \* per RwLock: write holders, read holders, waiting writers
    poisoned,          \* the RwLocks a panicking writer has poisoned
    queue,             \* jobs sent to the pool and not yet taken by a worker
    active,            \* jobs a worker is executing, each with its position
    completed,         \* per system: invocations that returned
    panicked,          \* per system: invocations that unwound
    mpc,               \* position of the main thread
    mi,                \* the index i of the submission loop (1-based)
    tick,              \* iterations of the main loop entered so far
    dump               \* the records printed by the final log

config == <<entities, workers, policy, env>>
world == <<positions, velocities, accelerations, alives, healths, health_changes,
           canvas, living_entities, running>>
pool == <<queue, active, completed, panicked>>
main == <<mpc, mi, tick, dump>>
vars == <<config, overflow_checks, world, locks, poisoned, pool, main>>

\* the vec! of line 331, in submission order
systems ==
    << "user_input_system", "position_update_system", "velocity_update_system",
       "component_render_system", "health_update_system", "acceleration_update_system",
       "alive_system", "health_changes_system", "alive_entities_display_system" >>

Systems == {systems[i] : i \in 1..Len(systems)}

\* the RwLock fields of World
Locks == {"running", "living_entities", "positions", "velocities", "accelerations",
          "alives", "canvas", "healths", "health_changes"}

\* the component kinds among them
Kinds == {"positions", "velocities", "accelerations", "alives", "healths", "health_changes"}

MainThread == <<"main", 0>>
holder(j) == <<j.sys, j.tick>>

\* ---------------------------------------------------------------- RwLock

\* RwLock::read can return: no writer holds the lock and, where the platform
\* prefers writers, none is waiting for it
read_lockable(l) ==
    /\ locks[l].w = {}
    /\ policy = "writer_pref" => locks[l].ww = {}

\* RwLock::write can return: nobody holds the lock
write_lockable(l) == locks[l].w = {} /\ locks[l].r = {}

lockable(l, mode) == IF mode = "W" THEN write_lockable(l) ELSE read_lockable(l)

granted(lk, l, mode, h) ==
    [lk EXCEPT ![l] = IF mode = "W"
                      THEN [w |-> @.w \cup {h}, r |-> @.r, ww |-> @.ww \ {h}]
                      ELSE [w |-> @.w, r |-> @.r \cup {h}, ww |-> @.ww]]

\* the guards h holds are dropped
released(lk, h) ==
    [l \in Locks |-> [w |-> lk[l].w \ {h}, r |-> lk[l].r \ {h}, ww |-> lk[l].ww \ {h}]]

held_write(lk, h) == {l \in Locks : h \in lk[l].w}
held(lk, h) == {l \in Locks : h \in lk[l].w \/ h \in lk[l].r}

\* ------------------------------------------------------------ thread pool

at(j, p) == j \in active /\ j.pc = p

goto(j, p) == (active \ {j}) \cup {[j EXCEPT !.pc = p]}

\* the closure returns: its guards are dropped, the worker is idle again
returns(j) ==
    /\ active' = active \ {j}
    /\ locks' = released(locks, holder(j))
    /\ completed' = [completed EXCEPT ![j.sys] = @ + 1]
    /\ UNCHANGED <<poisoned, panicked, queue>>

\* the closure panics: unwinding drops its guards, poisoning the locks it held
\* for writing; the pool replaces the worker thread
panics(j) ==
    /\ active' = active \ {j}
    /\ locks' = released(locks, holder(j))
    /\ poisoned' = poisoned \cup held_write(locks, holder(j))
    /\ panicked' = [panicked EXCEPT ![j.sys] = @ + 1]
    /\ UNCHANGED <<completed, queue>>

\* `world.<l>.read().unwrap()` or `.write().unwrap()` by job j, bound to a
\* guard that lives to the end of the function. A poisoned lock is acquired and
\* the unwrap panics. Where writers are preferred, a writer that finds the lock
\* taken is queued on it.
lock(j, l, mode) ==
    \/ /\ lockable(l, mode)
       /\ IF l \in poisoned
          THEN panics(j)
          ELSE /\ locks' = granted(locks, l, mode, holder(j))
               /\ active' = goto(j, j.pc + 1)
               /\ UNCHANGED <<poisoned, queue, completed, panicked>>
    \/ /\ mode = "W"
       /\ ~lockable(l, mode)
       /\ policy = "writer_pref"
       /\ holder(j) \notin locks[l].ww
       /\ locks' = [locks EXCEPT ![l].ww = @ \cup {holder(j)}]
       /\ UNCHANGED <<poisoned, pool>>

\* a worker thread takes the next job from the pool's channel
worker_take ==
    /\ queue # <<>>
    /\ Cardinality(active) < workers
    /\ active' = active \cup {[sys |-> Head(queue).sys, tick |-> Head(queue).tick, pc |-> 0]}
    /\ queue' = Tail(queue)
    /\ UNCHANGED <<config, overflow_checks, world, locks, poisoned, completed, panicked, main>>

\* ---------------------------------------------------------------- systems

\* what event::poll / event::read give user_input_system
InputEvents == env.events

others(unch) == UNCHANGED <<config, main, unch>>

\* user_input_system polling inside the statement of line 234, with the write
\* guard of `running` alive when the unwrap of line 230 or 231 panics
user_input_system_guarded_poll(j) ==
    /\ j.sys = "user_input_system"
    /\ \/ /\ at(j, 0)
          /\ \E ev \in InputEvents :
                \/ /\ ev \in {"none", "other_key"}
                   /\ returns(j)
                \/ /\ ev = "io_error"
                   /\ active' = active \ {j}
                   /\ locks' = released(locks, holder(j))
                   /\ poisoned' = poisoned \cup {"running"}
                   /\ panicked' = [panicked EXCEPT ![j.sys] = @ + 1]
                   /\ UNCHANGED <<completed, queue>>
                \/ /\ ev = "q_pressed"
                   /\ active' = goto(j, 1)
                   /\ UNCHANGED <<locks, poisoned, queue, completed, panicked>>
          /\ others(<<overflow_checks, world>>)
       \/ /\ at(j, 1)
          /\ write_lockable("running")
          /\ IF "running" \in poisoned
             THEN panics(j) /\ running' = running
             ELSE returns(j) /\ running' = FALSE
          /\ others(<<overflow_checks, positions, velocities, accelerations, alives,
                      healths, health_changes, canvas, living_entities>>)

user_input_system(j) ==
    /\ j.sys = "user_input_system"
    /\ \/ /\ at(j, 0)                       \* lines 230-233
          /\ \E ev \in InputEvents :
                \/ /\ ev \in {"none", "other_key"}
                   /\ returns(j)
                \/ /\ ev = "io_error"
                   /\ panics(j)
                \/ /\ ev = "q_pressed"
                   /\ active' = goto(j, 1)
                   /\ UNCHANGED <<locks, poisoned, queue, completed, panicked>>
          /\ others(<<overflow_checks, world>>)
       \/ /\ at(j, 1)                       \* line 234
          /\ write_lockable("running")
          /\ IF "running" \in poisoned
             THEN panics(j) /\ running' = running
             ELSE returns(j) /\ running' = FALSE
          /\ others(<<overflow_checks, positions, velocities, accelerations, alives,
                      healths, health_changes, canvas, living_entities>>)

\* position_update_system taking positions.read() where line 51 takes write()
position_update_system_read(j) ==
    /\ j.sys = "position_update_system"
    /\ \/ /\ at(j, 0)
          /\ lock(j, "positions", "R")
          /\ others(<<overflow_checks, world>>)
       \/ /\ at(j, 1)
          /\ lock(j, "velocities", "R")
          /\ others(<<overflow_checks, world>>)
       \/ /\ at(j, 2)
          /\ \E c \in (IF overflow_checks = "unknown" THEN {"on", "off"} ELSE {overflow_checks}) :
                LET r == position_update_loop(positions, velocities, 1, c = "on")
                IN  /\ positions' = r.arr
                    /\ overflow_checks' = IF r.overflow THEN c ELSE overflow_checks
                    /\ IF r.panic THEN panics(j) ELSE returns(j)
          /\ others(<<velocities, accelerations, alives, healths, health_changes,
                      canvas, living_entities, running>>)

position_update_system(j) ==
    /\ j.sys = "position_update_system"
    /\ \/ /\ at(j, 0)                       \* line 51
          /\ lock(j, "positions", "W")
          /\ others(<<overflow_checks, world>>)
       \/ /\ at(j, 1)                       \* line 52
          /\ lock(j, "velocities", "R")
          /\ others(<<overflow_checks, world>>)
       \/ /\ at(j, 2)                       \* lines 53-59
          /\ \E c \in (IF overflow_checks = "unknown" THEN {"on", "off"} ELSE {overflow_checks}) :
                LET r == position_update_loop(positions, velocities, 1, c = "on")
                IN  /\ positions' = r.arr
                    /\ overflow_checks' = IF r.overflow THEN c ELSE overflow_checks
                    /\ IF r.panic THEN panics(j) ELSE returns(j)
          /\ others(<<velocities, accelerations, alives, healths, health_changes,
                      canvas, living_entities, running>>)

velocity_update_system(j) ==
    /\ j.sys = "velocity_update_system"
    /\ \/ /\ at(j, 0)                       \* line 65
          /\ lock(j, "velocities", "W")
          /\ others(<<overflow_checks, world>>)
       \/ /\ at(j, 1)                       \* line 66
          /\ lock(j, "accelerations", "R")
          /\ others(<<overflow_checks, world>>)
       \/ /\ at(j, 2)                       \* lines 67-73
          /\ \E c \in (IF overflow_checks = "unknown" THEN {"on", "off"} ELSE {overflow_checks}) :
                LET r == velocity_update_loop(velocities, accelerations, 1, c = "on")
                IN  /\ velocities' = r.arr
                    /\ overflow_checks' = IF r.overflow THEN c ELSE overflow_checks
                    /\ IF r.panic THEN panics(j) ELSE returns(j)
          /\ others(<<positions, accelerations, alives, healths, health_changes,
                      canvas, living_entities, running>>)

\* component_render_system painting over the published canvas where line 80
\* starts from an all-Dead array
component_render_system_repaint(j) ==
    /\ j.sys = "component_render_system"
    /\ \/ /\ at(j, 0)
          /\ lock(j, "positions", "R")
          /\ others(<<overflow_checks, world>>)
       \/ /\ at(j, 1)
          /\ lock(j, "healths", "R")
          /\ others(<<overflow_checks, world>>)
       \/ /\ at(j, 2)
          /\ lock(j, "alives", "R")
          /\ others(<<overflow_checks, world>>)
       \/ /\ at(j, 3)
          /\ write_lockable("canvas")
          /\ IF "canvas" \in poisoned
             THEN panics(j) /\ canvas' = canvas
             ELSE returns(j) /\ canvas' = render_loop(canvas, positions, alives, healths, 1)
          /\ others(<<overflow_checks, positions, velocities, accelerations, alives,
                      healths, health_changes, living_entities, running>>)

component_render_system(j) ==
    /\ j.sys = "component_render_system"
    /\ \/ /\ at(j, 0)                       \* line 79
          /\ lock(j, "positions", "R")
          /\ others(<<overflow_checks, world>>)
       \/ /\ at(j, 1)                       \* line 81
          /\ lock(j, "healths", "R")
          /\ others(<<overflow_checks, world>>)
       \/ /\ at(j, 2)                       \* line 82
          /\ lock(j, "alives", "R")
          /\ others(<<overflow_checks, world>>)
       \/ /\ at(j, 3)                       \* lines 80, 83-93 and line 94
          /\ write_lockable("canvas")
          /\ IF "canvas" \in poisoned
             THEN panics(j) /\ canvas' = canvas
             ELSE returns(j) /\ canvas' = new_canvas(positions, alives, healths)
          /\ others(<<overflow_checks, positions, velocities, accelerations, alives,
                      healths, health_changes, living_entities, running>>)

health_update_system(j) ==
    /\ j.sys = "health_update_system"
    /\ \/ /\ at(j, 0)                       \* line 101
          /\ lock(j, "healths", "W")
          /\ others(<<overflow_checks, world>>)
       \/ /\ at(j, 1)                       \* line 102
          /\ lock(j, "health_changes", "R")
          /\ others(<<overflow_checks, world>>)
       \/ /\ at(j, 2)                       \* lines 103-106
          /\ healths' = health_update(healths, health_changes)
          /\ returns(j)
          /\ others(<<overflow_checks, positions, velocities, accelerations, alives,
                      health_changes, canvas, living_entities, running>>)

acceleration_update_system(j) ==
    /\ j.sys = "acceleration_update_system"
    /\ \/ /\ at(j, 0)                       \* line 162
          /\ lock(j, "accelerations", "W")
          /\ others(<<overflow_checks, world>>)
       \/ /\ at(j, 1)                       \* lines 163-183
          /\ \E rs \in [1..Len(accelerations) -> env.usize \X env.usize] :
                accelerations' = acceleration_update(accelerations, rs)
          /\ returns(j)
          /\ others(<<overflow_checks, positions, velocities, alives, healths,
                      health_changes, canvas, living_entities, running>>)

alive_system(j) ==
    /\ j.sys = "alive_system"
    /\ \/ /\ at(j, 0)                       \* line 189
          /\ lock(j, "alives", "W")
          /\ others(<<overflow_checks, world>>)
       \/ /\ at(j, 1)                       \* line 190
          /\ lock(j, "healths", "R")
          /\ others(<<overflow_checks, world>>)
       \/ /\ at(j, 2)                       \* lines 191-196
          /\ alives' = alive_update(alives, healths)
          /\ returns(j)
          /\ others(<<overflow_checks, positions, velocities, accelerations, healths,
                      health_changes, canvas, living_entities, running>>)

health_changes_system(j) ==
    /\ j.sys = "health_changes_system"
    /\ \/ /\ at(j, 0)                       \* line 202
          /\ lock(j, "health_changes", "W")
          /\ others(<<overflow_checks, world>>)
       \/ /\ at(j, 1)                       \* lines 203-215
          /\ \E rs \in [1..Len(health_changes) -> env.bool \X env.isize] :
                health_changes' = health_changes_update(health_changes, rs)
          /\ returns(j)
          /\ others(<<overflow_checks, positions, velocities, accelerations, alives,
                      healths, canvas, living_entities, running>>)

alive_entities_display_system(j) ==
    /\ j.sys = "alive_entities_display_system"
    /\ \/ /\ at(j, 0)                       \* line 221
          /\ lock(j, "alives", "R")
          /\ others(<<overflow_checks, world>>)
       \/ /\ at(j, 1)                       \* lines 222-223
          /\ write_lockable("living_entities")
          /\ IF "living_entities" \in poisoned
             THEN panics(j) /\ living_entities' = living_entities
             ELSE returns(j) /\ living_entities' = total_alive(alives)
          /\ others(<<overflow_checks, positions, velocities, accelerations, alives,
                      healths, health_changes, canvas, running>>)

\* -------------------------------------------------------------- main thread

\* loop iterations explored for a pool of w workers
Horizon(w) == Max2(1, MaxTicks + 1 - w)

\* line 349: the loop condition reads the running flag
main_while ==
    /\ mpc = "while"
    /\ read_lockable("running")
    /\ IF running
       THEN /\ tick < Horizon(workers)
            /\ mpc' = "draw"
            /\ tick' = tick + 1
       ELSE /\ mpc' = "leave"
            /\ tick' = tick
    /\ UNCHANGED <<config, overflow_checks, world, locks, poisoned, pool, mi, dump>>

\* line 351, canvas_render_system: the paint closure takes canvas.read() (140)
canvas_render_system ==
    \/ /\ mpc = "draw"
       /\ read_lockable("canvas")
       /\ locks' = granted(locks, "canvas", "R", MainThread)
       /\ mpc' = "paint"
       /\ UNCHANGED <<config, overflow_checks, world, poisoned, pool, mi, tick, dump>>
    \/ /\ mpc = "paint"                      \* lines 141-155, then Ok or the `?` of 351
       /\ locks' = released(locks, MainThread)
       /\ \E ok \in BOOLEAN : mpc' = IF ok THEN "submit" ELSE "failed"
       /\ mi' = 1
       /\ UNCHANGED <<config, overflow_checks, world, poisoned, pool, tick, dump>>

\* the submission loop stopping one system short of systems_len
main_execute_short ==
    /\ mpc = "submit"
    /\ queue' = Append(queue, [sys |-> systems[mi], tick |-> tick])
    /\ mi' = mi + 1
    /\ mpc' = IF mi = Len(systems) - 1 THEN "join" ELSE "submit"
    /\ UNCHANGED <<config, overflow_checks, world, locks, poisoned, active, completed,
                   panicked, tick, dump>>

\* lines 354-358: pool.execute of systems[i]
main_execute ==
    /\ mpc = "submit"
    /\ queue' = Append(queue, [sys |-> systems[mi], tick |-> tick])
    /\ mi' = mi + 1
    /\ mpc' = IF mi = Len(systems) THEN "join" ELSE "submit"
    /\ UNCHANGED <<config, overflow_checks, world, locks, poisoned, active, completed,
                   panicked, tick, dump>>

\* a join that waits for the queue to drain and not for the running jobs
pool_idle_queue_only == queue = <<>>

\* ThreadPool::join can return: no job is queued and none is active
pool_idle == queue = <<>> /\ active = {}

\* the loop body without the pool.join() of line 360
main_join_no_wait ==
    /\ mpc = "join"
    /\ mpc' = "while"
    /\ UNCHANGED <<config, overflow_checks, world, locks, poisoned, pool, mi, tick, dump>>

\* line 360: pool.join()
main_join ==
    /\ mpc = "join"
    /\ pool_idle
    /\ mpc' = "while"
    /\ UNCHANGED <<config, overflow_checks, world, locks, poisoned, pool, mi, tick, dump>>

\* lines 367-377: the records of the log, one per (i, _) of the enumerated filter
log_records ==
    LET n == total_alive(alives)
    IN  [i \in 1..n |->
            [id |-> i - 1,
             position |-> positions[i],
             velocity |-> velocities[i],
             acceleration |-> accelerations[i],
             health |-> healths[i],
             health_changes |-> health_changes[i]]]

\* lines 363-378: leaving the loop, then the log if args.log_living
main_leave ==
    /\ mpc = "leave"
    /\ \E log_living \in BOOLEAN :
          IF log_living
          THEN /\ \A l \in Kinds : read_lockable(l)
               /\ IF total_alive(alives) > 0 /\ "positions" \in poisoned
                  THEN mpc' = "panicked" /\ dump' = dump
                  ELSE mpc' = "exit" /\ dump' = log_records
          ELSE mpc' = "exit" /\ dump' = dump
    /\ UNCHANGED <<config, overflow_checks, world, locks, poisoned, pool, mi, tick>>

\* ------------------------------------------------------------ specification

Init ==
    /\ entities = MaxEntities
    /\ workers \in 1..MaxWorkers
    /\ policy \in {"reader_pref", "writer_pref"}
    /\ overflow_checks = "unknown"
    /\ \E run \in Runs : \E d \in {run.new} :
          /\ env = [new |-> d, usize |-> run.usize, isize |-> run.isize,
                    bool |-> run.bool, events |-> run.events]
          /\ positions = new_positions(entities, d)
          /\ velocities = new_velocities(entities, d)
          /\ accelerations = new_accelerations(entities, d)
          /\ alives = new_alives(entities, d)
          /\ healths = new_healths(entities, d)
          /\ health_changes = new_health_changes(entities, d)
    /\ canvas = dead_canvas
    /\ living_entities = 0
    /\ running = TRUE
    /\ locks = [l \in Locks |-> [w |-> {}, r |-> {}, ww |-> {}]]
    /\ poisoned = {}
    /\ queue = <<>>
    /\ active = {}
    /\ completed = [s \in Systems |-> 0]
    /\ panicked = [s \in Systems |-> 0]
    /\ mpc = "while"
    /\ mi = 1
    /\ tick = 0
    /\ dump = <<>>

Next ==
    \/ main_while
    \/ canvas_render_system
    \/ main_execute
    \/ main_join
    \/ main_leave
    \/ worker_take
    \/ \E j \in active : user_input_system(j)
    \/ \E j \in active : position_update_system(j)
    \/ \E j \in active : velocity_update_system(j)
    \/ \E j \in active : component_render_system(j)
    \/ \E j \in active : health_update_system(j)
    \/ \E j \in active : acceleration_update_system(j)
    \/ \E j \in active : alive_system(j)
    \/ \E j \in active : health_changes_system(j)
    \/ \E j \in active : alive_entities_display_system(j)

Spec == Init /\ [][Next]_vars

\* ------------------------------------------------------------------ claims

finished(s) == completed[s] + panicked[s]

\* some worker thread can take a step
worker_step ==
    \/ worker_take
    \/ \E j \in active :
          \/ user_input_system(j)
          \/ position_update_system(j)
          \/ velocity_update_system(j)
          \/ component_render_system(j)
          \/ health_update_system(j)
          \/ acceleration_update_system(j)
          \/ alive_system(j)
          \/ health_changes_system(j)
          \/ alive_entities_display_system(j)

\* C1: while a job submitted for tick N+1 is with a worker, every job of the
\* pool belongs to tick N+1 and each of the nine systems has finished its
\* invocations for the ticks 1..N.
TickBarrier ==
    \A j \in active :
        /\ \A k \in active : k.tick = j.tick
        /\ \A i \in 1..Len(queue) : queue[i].tick = j.tick
        /\ \A s \in Systems : finished(s) >= j.tick - 1

\* C1 witness: a system of the second tick holds a lock, after the first tick
TickBarrierWitness ==
    \E j \in active :
        /\ j.tick = 2
        /\ held(locks, holder(j)) # {}
        /\ workers >= 2

\* C2: whenever the main thread waits in pool.join() for unfinished work, some
\* worker can take a step, whatever the pool size and the lock's admission policy.
TickNeverStuck == (mpc = "join" /\ ~pool_idle) => ENABLED worker_step

\* the orders of the specification: <<a, b>> is "a before b"
kind_order ==
    { <<"positions", "velocities">>, <<"velocities", "accelerations">>,
      <<"healths", "health_changes">>, <<"alives", "healths">> }

\* C3: a system never holds locks on more than two component kinds, and never
\* acquires a kind while it holds a kind that is ordered after it.
LockAcquisitionOrder ==
    [][ \A j \in active :
          LET before == held(locks, holder(j)) \cap Kinds
              after == held(locks', holder(j)) \cap Kinds
          IN  /\ Cardinality(after) <= 2
              /\ \A a \in after \ before : \A b \in before : <<a, b>> \notin kind_order ]_vars

\* the array a system mutates and the position at which it does
target(sys) ==
    CASE sys = "position_update_system" -> <<"positions", 2>>
      [] sys = "velocity_update_system" -> <<"velocities", 2>>
      [] sys = "health_update_system" -> <<"healths", 2>>
      [] sys = "acceleration_update_system" -> <<"accelerations", 1>>
      [] sys = "alive_system" -> <<"alives", 2>>
      [] sys = "health_changes_system" -> <<"health_changes", 1>>
      [] sys = "component_render_system" -> <<"canvas", 3>>
      [] sys = "alive_entities_display_system" -> <<"living_entities", 1>>
      [] OTHER -> <<"running", 1>>

\* the arrays a system reads at that position
sources(sys) ==
    CASE sys = "position_update_system" -> {"velocities"}
      [] sys = "velocity_update_system" -> {"accelerations"}
      [] sys = "health_update_system" -> {"health_changes"}
      [] sys = "alive_system" -> {"healths"}
      [] sys = "component_render_system" -> {"positions", "healths", "alives"}
      [] sys = "alive_entities_display_system" -> {"alives"}
      [] OTHER -> {}

\* C4: every lock has at most one write holder and then no read holder; a
\* system about to run its loop over a component array is that array's only
\* holder, and no writer holds an array it is about to read; nobody writes the
\* canvas while the main thread paints it.
PerKindExclusion ==
    /\ \A l \in Locks :
          /\ Cardinality(locks[l].w) <= 1
          /\ locks[l].w # {} => locks[l].r = {}
    /\ \A j \in active :
          j.pc = target(j.sys)[2] =>
             /\ target(j.sys)[1] \in Kinds =>
                   /\ locks[target(j.sys)[1]].w = {holder(j)}
                   /\ locks[target(j.sys)[1]].r = {}
             /\ \A l \in sources(j.sys) :
                   /\ holder(j) \in locks[l].r
                   /\ locks[l].w = {}
    /\ mpc = "paint" => locks["canvas"].w = {} /\ MainThread \in locks["canvas"].r

\* C4 witness: a writer holds an array while another system waits to read it
PerKindExclusionWitness ==
    \E j \in active : \E k \in active :
        /\ j.sys = "health_update_system" /\ j.pc = 2
        /\ k.sys = "alive_system" /\ k.pc = 1

\* C5: the main thread is past the loop only with the pool idle and with every
\* system finished once per tick entered; it reads the flag only with the pool
\* idle; so the tick in which the flag was cleared ran in full, no later tick
\* was submitted and no system runs during the final log.
StopAtTickBoundary ==
    /\ mpc \in {"while", "leave", "exit", "panicked"} =>
          /\ pool_idle
          /\ \A s \in Systems : finished(s) = tick
    /\ mpc \in {"leave", "exit", "panicked"} => ~running

\* C5 witness: the flag was cleared in the second tick and the log was printed
StopAtTickBoundaryWitness ==
    /\ mpc = "exit"
    /\ ~running
    /\ tick = 2
    /\ dump # <<>>

\* per system, the jobs of the pool
pending(s) ==
    Cardinality({j \in active : j.sys = s})
    + Cardinality({i \in 1..Len(queue) : queue[i].sys = s})

\* C6: each system is submitted once per tick: what has finished plus what is
\* in the pool is the tick while the main thread joins, and when the join has
\* returned every system has finished exactly once per tick entered.
ExactlyOncePerTick ==
    /\ mpc = "join" => \A s \in Systems : finished(s) + pending(s) = tick
    /\ mpc = "while" => \A s \in Systems : finished(s) = tick /\ pending(s) = 0
    /\ \A s \in Systems : pending(s) <= 1

\* C6 witness: with one worker eight systems wait in the queue, and the barrier
\* of the tick is passed
ExactlyOncePerTickWitness ==
    /\ workers = 1
    /\ mpc = "join"
    /\ Len(queue) = Len(systems) - 1
    /\ tick = 2

\* C7: the six component arrays have the length `entities`.
ArrayLengths ==
    /\ Len(positions) = entities
    /\ Len(velocities) = entities
    /\ Len(accelerations) = entities
    /\ Len(alives) = entities
    /\ Len(healths) = entities
    /\ Len(health_changes) = entities

\* C8: every present position lies in [MIN_X, MAX_X] x [MIN_Y, MAX_Y].
PositionBounds ==
    \A i \in 1..Len(positions) :
        is_some(positions[i]) =>
            /\ MIN_X <= unwrap(positions[i])[1] /\ unwrap(positions[i])[1] <= MAX_X
            /\ MIN_Y <= unwrap(positions[i])[2] /\ unwrap(positions[i])[2] <= MAX_Y

\* C9: when an invocation of health_update_system returns, every present
\* health is in 0..MAX_HEALTH, and where health and delta were both present the
\* new health is clamp(health + delta, 0, MAX_HEALTH).
HealthClamped ==
    [][ completed'["health_update_system"] # completed["health_update_system"] =>
          \A i \in 1..Len(healths') :
             /\ is_some(healths'[i]) =>
                   0 <= unwrap(healths'[i]) /\ unwrap(healths'[i]) <= MAX_HEALTH
             /\ (is_some(healths[i]) /\ is_some(health_changes[i])) =>
                   healths'[i] = Some(clamp(unwrap(healths[i]) + unwrap(health_changes[i]),
                                            0, MAX_HEALTH)) ]_vars

\* C10: at the barrier that ends a tick, an entity that has an Alive value and
\* whose health is 0 or absent has Alive == Some(false).
DeathByEndOfTick ==
    (mpc = "while" /\ tick >= 1) =>
        \A i \in 1..Len(alives) :
            (is_some(alives[i]) /\ (is_none(healths[i]) \/ unwrap(healths[i]) = 0))
                => alives[i] = Some(FALSE)

\* C11: an Alive value that is Some(false) is Some(false) after every step, so
\* no system and no sequence of ticks brings an entity back to Some(true).
MonotonicDeath ==
    [][ \A i \in 1..Len(alives) :
          alives[i] = Some(FALSE) => (Len(alives') >= i /\ alives'[i] = Some(FALSE)) ]_vars

\* C11 witness: an entity is dead while a later alive_system holds alives.write()
\* and healths.read(), about to run its loop over that entity again
MonotonicDeathWitness ==
    /\ \E i \in 1..Len(alives) : alives[i] = Some(FALSE)
    /\ \E j \in active : j.sys = "alive_system" /\ j.pc = 2
    /\ completed["alive_system"] >= 1

\* the values an acceleration axis can take
AxisValues == {-1, 0, 1}

\* C12: at the barrier that ends tick N (and before the first tick, N = 0) an
\* acceleration is present iff its presence after World::new has been toggled
\* N times, and a health change (absent after World::new) is present iff N is
\* odd: what is present at one barrier is absent at the next and present again
\* at the one after. A present acceleration is in {-1,0,1} x {-1,0,1}.
PeriodTwoToggle ==
    mpc = "while" =>
        /\ Len(accelerations) = entities
        /\ Len(health_changes) = entities
        /\ \A i \in 1..Len(accelerations) :
              /\ is_some(accelerations[i])
                    = (is_some(new_accelerations(entities, env.new)[i]) = (tick % 2 = 0))
              /\ is_some(accelerations[i]) =>
                    /\ unwrap(accelerations[i])[1] \in AxisValues
                    /\ unwrap(accelerations[i])[2] \in AxisValues
        /\ \A i \in 1..Len(health_changes) :
              is_some(health_changes[i])
                 = (is_some(new_health_changes(entities, env.new)[i]) = (tick % 2 = 0))

\* C12 witness: the barrier of the third tick, where an acceleration that was
\* absent after World::new is present for the second time, next to one that is
\* absent for the second time
PeriodTwoToggleWitness ==
    /\ mpc = "while"
    /\ tick = 3
    /\ \E i \in 1..Len(accelerations) :
          /\ is_none(new_accelerations(entities, env.new)[i])
          /\ is_some(accelerations[i])
          /\ is_some(health_changes[i])
    /\ \E i \in 1..Len(accelerations) : is_none(accelerations[i])

\* the health classification: 0 -> Dead, 1-3 -> Low, 4-6 -> Medium, >= 7 -> High
status_of(h) ==
    IF h = 0 THEN "Dead" ELSE IF h <= 3 THEN "Low" ELSE IF h <= 6 THEN "Medium" ELSE "High"

\* the entities a render draws: Position present, Alive == Some(true), Health present
drawn(ps, als, hs) ==
    {i \in 1..entities :
        /\ i <= Len(ps) /\ i <= Len(als) /\ i <= Len(hs)
        /\ is_some(ps[i]) /\ als[i] = Some(TRUE) /\ is_some(hs[i])}

\* the last of the drawn entities, in index order, that maps to cell c
last_on(c, ps, als, hs) ==
    CHOOSE i \in drawn(ps, als, hs) :
        /\ cell_of(unwrap(ps[i])) = c
        /\ \A k \in drawn(ps, als, hs) : cell_of(unwrap(ps[k])) = c => k <= i

\* the step in which an invocation of component_render_system returns
render_returns == completed'["component_render_system"] # completed["component_render_system"]

\* C13: when component_render_system returns, every cell to which a drawn
\* entity of the snapshot maps holds the classification of the health of the
\* last drawn entity that maps to it.
CanvasFaithful ==
    [][ render_returns =>
          \A i \in drawn(positions, alives, healths) :
             LET c == cell_of(unwrap(positions[i]))
             IN  canvas_at(canvas', c[1], c[2])
                    = status_of(unwrap(healths[last_on(c, positions, alives, healths)])) ]_vars

\* the drawn entities that map to cell c and whose health paints it (lines 88-90)
painting(c, ps, als, hs) ==
    {i \in drawn(ps, als, hs) : cell_of(unwrap(ps[i])) = c /\ unwrap(hs[i]) >= 1}

\* what a snapshot alone gives cell c: Dead where nobody paints, the
\* classification of the last painting entity elsewhere
from_snapshot(c, ps, als, hs) ==
    IF painting(c, ps, als, hs) = {} THEN "Dead"
    ELSE LET last == CHOOSE i \in painting(c, ps, als, hs) :
                        \A k \in painting(c, ps, als, hs) : k <= i
         IN  status_of(unwrap(hs[last]))

\* C14: when component_render_system returns, every cell to which no drawn
\* entity of the snapshot maps is Dead, and every cell is what the snapshot of
\* positions, alives and healths alone gives it, whatever the canvas held before.
CanvasNoMemory ==
    [][ render_returns =>
          /\ \A c \in DOMAIN canvas' :
                canvas'[c] # "Dead" =>
                   \E i \in drawn(positions, alives, healths) : cell_of(unwrap(positions[i])) = c
          /\ \A c \in (DOMAIN canvas) \cup (DOMAIN canvas')
                      \cup {cell_of(unwrap(positions[i])) : i \in drawn(positions, alives, healths)} :
                canvas_at(canvas', c[1], c[2]) = from_snapshot(c, positions, alives, healths) ]_vars

\* C14 witness: a third render has returned; an entity that the first render
\* painted has died, its cell is Dead again while another cell is painted
CanvasNoMemoryWitness ==
    /\ completed["component_render_system"] = 3
    /\ canvas # dead_canvas
    /\ \E i \in 1..entities :
          /\ is_some(positions[i])
          /\ alives[i] = Some(FALSE)
          /\ new_healths(entities, env.new)[i] # Some(0)
          /\ canvas_at(canvas, cell_of(unwrap(positions[i]))[1], cell_of(unwrap(positions[i]))[2]) = "Dead"

\* element i of array b is absent (or b has no element i)
absent_at(b, i) == i > Len(b) \/ is_none(b[i])

\* C15: no step changes a position whose velocity or position is absent, a
\* velocity whose acceleration or velocity is absent, or a health whose health
\* change or health is absent; an absent target stays absent.
AbsencePropagation ==
    [][ /\ Len(positions') = Len(positions)
        /\ Len(velocities') = Len(velocities)
        /\ Len(healths') = Len(healths)
        /\ \A i \in 1..Len(positions) :
              (is_none(positions[i]) \/ absent_at(velocities, i)) => positions'[i] = positions[i]
        /\ \A i \in 1..Len(velocities) :
              (is_none(velocities[i]) \/ absent_at(accelerations, i)) => velocities'[i] = velocities[i]
        /\ \A i \in 1..Len(healths) :
              (is_none(healths[i]) \/ absent_at(health_changes, i)) => healths'[i] = healths[i] ]_vars

\* C15 witness: position_update_system and health_update_system are each about
\* to run their loop, over a position without velocity next to one that is
\* absent, and over a health without health change; a velocity is without
\* acceleration
AbsencePropagationWitness ==
    /\ \E j \in active : j.sys = "position_update_system" /\ j.pc = 2
    /\ \E j \in active : j.sys = "health_update_system" /\ j.pc = 2
    /\ \E i \in 1..Len(positions) : is_some(positions[i]) /\ absent_at(velocities, i)
    /\ \E i \in 1..Len(positions) : is_none(positions[i])
    /\ \E i \in 1..Len(velocities) : is_some(velocities[i]) /\ absent_at(accelerations, i)
    /\ \E i \in 1..Len(healths) : is_some(healths[i]) /\ absent_at(health_changes, i)

\* the records of the dump that carry the id of the entity at index e
records_of(e) == {k \in 1..Len(dump) : dump[k].id = e - 1}

\* C16: when the loop has stopped and the dump was printed, every entity with
\* Alive == Some(true) has exactly one record with its id, holding the values
\* stored at its index, and every record carries the id of such an entity.
FinalDumpIdentity ==
    (mpc = "exit" /\ dump # <<>>) =>
        /\ \A e \in 1..Len(alives) :
              alives[e] = Some(TRUE) =>
                 /\ Cardinality(records_of(e)) = 1
                 /\ \A k \in records_of(e) :
                       /\ dump[k].position = positions[e]
                       /\ dump[k].velocity = velocities[e]
                       /\ dump[k].acceleration = accelerations[e]
                       /\ dump[k].health = healths[e]
                       /\ dump[k].health_changes = health_changes[e]
        /\ \A k \in 1..Len(dump) :
              \E e \in 1..Len(alives) : alives[e] = Some(TRUE) /\ dump[k].id = e - 1

\* C17: the step in which user_input_system fails leaves what the step of a
\* poll without input leaves: the running flag, every component array, the
\* canvas and the counter are unchanged, no lock is held or poisoned, the
\* queued jobs and the other running jobs are untouched, the worker is free for
\* the next job and the main thread is where it was, so the tick and the loop
\* go on as after a poll without input.
InputFailureAbsorbed ==
    [][ panicked'["user_input_system"] # panicked["user_input_system"] =>
          /\ UNCHANGED <<world, locks, poisoned, queue, completed, main, overflow_checks>>
          /\ \E j \in active :
                /\ j.sys = "user_input_system"
                /\ held(locks, holder(j)) = {}
                /\ active' = active \ {j} ]_vars

\* C17 witness: the poll failed in the first tick; the barrier of that tick
\* returned with the other eight systems completed, the flag is still set and
\* a system of the second tick is running
InputFailureAbsorbedWitness ==
    /\ panicked["user_input_system"] >= 1
    /\ running
    /\ tick = 2
    /\ \A s \in Systems \ {"user_input_system"} : completed[s] >= 1
    /\ \E j \in active : j.tick = 2 /\ j.sys # "user_input_system"

\* C18: at the barrier that ends a tick, living_entities is the number of
\* entities with Alive == Some(true) in the store.
PublishedAliveCount ==
    (mpc = "while" /\ tick >= 1) => living_entities = total_alive(alives)

\* <<y, x>> indexes the grid
in_grid(c) == 0 <= c[1] /\ c[1] < HEIGHT /\ 0 <= c[2] /\ c[2] < WIDTH

\* C19: the cell computed for every present position of the store, inside the
\* bounds or not, indexes the grid, and so does every cell a render has written.
CanvasIndexInRange ==
    /\ \A i \in 1..Len(positions) :
          is_some(positions[i]) => in_grid(cell_of(unwrap(positions[i])))
    /\ \A c \in DOMAIN canvas : in_grid(c)

\* C19 witness: a render has drawn an entity whose position lies outside the
\* bounds, on the last column of the grid
CanvasIndexInRangeWitness ==
    /\ completed["component_render_system"] >= 1
    /\ \E i \in drawn(positions, alives, healths) :
          /\ unwrap(positions[i])[1] > MAX_X
          /\ cell_of(unwrap(positions[i]))[2] = WIDTH - 1
          /\ cell_of(unwrap(positions[i])) \in DOMAIN canvas

\* arrays a and b have the same length and the same elements present
same_presence(a, b) ==
    /\ Len(a) = Len(b)
    /\ \A i \in 1..Len(a) : is_some(a[i]) = is_some(b[i])

\* the step in which an invocation of system s ends
ends(s) == \E j \in active : j.sys = s /\ j \notin active'

\* C20: no step changes which positions, velocities, healths and alives are
\* present, nor the length of any array; and an array changes only in the step
\* in which its one writer ends: positions by position_update_system,
\* velocities by velocity_update_system, accelerations by
\* acceleration_update_system, healths by health_update_system, health_changes
\* by health_changes_system, alives by alive_system.
PresenceFrozen ==
    [][ /\ same_presence(positions, positions')
        /\ same_presence(velocities, velocities')
        /\ same_presence(healths, healths')
        /\ same_presence(alives, alives')
        /\ Len(accelerations') = Len(accelerations)
        /\ Len(health_changes') = Len(health_changes)
        /\ positions' # positions => ends("position_update_system")
        /\ velocities' # velocities => ends("velocity_update_system")
        /\ accelerations' # accelerations => ends("acceleration_update_system")
        /\ healths' # healths => ends("health_update_system")
        /\ health_changes' # health_changes => ends("health_changes_system")
        /\ alives' # alives => ends("alive_system") ]_vars

\* C20 witness: values of positions, healths and alives have changed, next to
\* an absent position and an entity without velocity whose acceleration is
\* present, while accelerations and health changes have changed presence
PresenceFrozenWitness ==
    /\ positions # new_positions(entities, env.new)
    /\ healths # new_healths(entities, env.new)
    /\ alives # new_alives(entities, env.new)
    /\ \E i \in 1..Len(positions) : is_none(positions[i])
    /\ \E i \in 1..Len(velocities) : is_none(velocities[i]) /\ is_some(accelerations[i])
    /\ ~same_presence(accelerations, new_accelerations(entities, env.new))
    /\ ~same_presence(health_changes, new_health_changes(entities, env.new))
    /\ completed["velocity_update_system"] >= 2

====
